---- MODULE Spec2Model ----
(***************************************************************************)
(* A model of xtask (src/xtask/src/main.rs): the sample extractor          *)
(* parse_samples, the target normalisation of run_tests, the case          *)
(* resolution of run_case / candidate_inputs and the sample writer of      *)
(* fetch_samples.                                                          *)
(*                                                                         *)
(* Text is a sequence of one-character strings.  A heading title is a      *)
(* sequence of such characters in which each of the four markers of        *)
(* classify_heading is one atomic element.                                 *)
(***************************************************************************)
EXTENDS Integers, Sequences, FiniteSets, TLC

VARIABLES
    \* run_tests
    target, pcT, test_name, task_slug, filter_args, rerun,
    \* parse_samples
    doc, inputs, outputs, samples, pcP,
    \* fetch_samples / run_case: the task directory and the last calls
    dirs, fs, nfetch, faulted, origin, fetched, run

varsT == <<target, pcT, test_name, task_slug, filter_args, rerun>>
varsP == <<doc, inputs, outputs, samples, pcP>>
varsF == <<dirs, fs, nfetch, faulted, origin, fetched, run>>
vars == <<varsT, varsP, varsF>>

(***************************************************************************)
(* Strings                                                                 *)
(***************************************************************************)
LF == "\n"
CR == "\r"

Range(s) == {s[i] : i \in 1..Len(s)}

\* str::ends_with
EndsWith(s, suffix) ==
    /\ Len(s) >= Len(suffix)
    /\ SubSeq(s, Len(s) - Len(suffix) + 1, Len(s)) = suffix

\* str::starts_with
StartsWith(s, prefix) ==
    /\ Len(s) >= Len(prefix)
    /\ SubSeq(s, 1, Len(prefix)) = prefix

\* u8::to_ascii_lowercase on the letters the model uses
LowerChar(c) ==
    CASE c = "A" -> "a"
      [] c = "B" -> "b"
      [] c = "T" -> "t"
      [] c = "E" -> "e"
      [] c = "S" -> "s"
      [] OTHER -> c

\* str::to_ascii_lowercase
ToAsciiLowercase(s) == [i \in 1..Len(s) |-> LowerChar(s[i])]

\* str::trim_end_matches: removes the suffix repeatedly
RECURSIVE TrimEndMatches(_, _)
TrimEndMatches(s, pat) ==
    IF pat # <<>> /\ EndsWith(s, pat)
    THEN TrimEndMatches(SubSeq(s, 1, Len(s) - Len(pat)), pat)
    ELSE s

\* Concatenation of a sequence of strings
RECURSIVE Concat(_)
Concat(ss) == IF ss = <<>> THEN <<>> ELSE Head(ss) \o Concat(Tail(ss))

\* All sequences over S of length at most n
SeqUpTo(S, n) == UNION {[1..k -> S] : k \in 0..n}

(***************************************************************************)
(* run_tests: target normalisation (main.rs 233-247)                       *)
(***************************************************************************)
TestSuffix == <<"_", "t", "e", "s", "t">>
AllCases == <<"_", "a", "l", "l", "_", "c", "a", "s", "e", "s">>

MaxParts == 3

\* The pieces targets are built from
TargetParts ==
    { <<"b">>, <<"B">>, TestSuffix, <<"_", "T", "E", "S", "T">>,
      <<"t">>, <<"_">>, <<"e", "s", "t">> }

Targets == {Concat(ps) : ps \in SeqUpTo(TargetParts, MaxParts)}

\* let normalized = target.to_ascii_lowercase();
Normalized(t) == ToAsciiLowercase(t)

\* A faulty variant: the suffix is appended without asking whether it is there
TestNameOfAppend(t) == Normalized(t) \o TestSuffix

\* test_name of the tuple (test_name, task_slug)
TestNameOf(t) ==
    IF EndsWith(Normalized(t), TestSuffix)
    THEN Normalized(t)
    ELSE Normalized(t) \o TestSuffix

\* task_slug of the tuple (test_name, task_slug)
TaskSlugOf(t) ==
    IF EndsWith(Normalized(t), TestSuffix)
    THEN TrimEndMatches(Normalized(t), TestSuffix)
    ELSE Normalized(t)

Exact == <<"-", "-", "e", "x", "a", "c", "t">>

\* filter_args after the two pushes
FilterArgsOf(t) == <<Exact, TaskSlugOf(t) \o AllCases>>

NoRerun == [test_name |-> <<>>, filter_args |-> <<>>]

\* run_tests with Some(target): the names it puts on the command line
RunTests ==
    /\ pcT = "start"
    /\ test_name' = TestNameOf(target)
    /\ task_slug' = TaskSlugOf(target)
    /\ filter_args' = FilterArgsOf(target)
    /\ pcT' = "built"
    /\ UNCHANGED <<target, rerun>>
    /\ UNCHANGED <<varsP, varsF>>

\* run_tests called again, with the binary name the first call derived
RunTestsAgain ==
    /\ pcT = "built"
    /\ rerun' = [test_name |-> TestNameOf(test_name),
                 filter_args |-> FilterArgsOf(test_name)]
    /\ pcT' = "rebuilt"
    /\ UNCHANGED <<target, test_name, task_slug, filter_args>>
    /\ UNCHANGED <<varsP, varsF>>

(***************************************************************************)
(* Numbers as text                                                         *)
(***************************************************************************)
Digits == {"0", "1", "2", "3", "4", "5", "6", "7", "8", "9"}

DigitValue(c) ==
    CASE c = "0" -> 0 [] c = "1" -> 1 [] c = "2" -> 2 [] c = "3" -> 3
      [] c = "4" -> 4 [] c = "5" -> 5 [] c = "6" -> 6 [] c = "7" -> 7
      [] c = "8" -> 8 [] c = "9" -> 9

DigitChar(d) == <<"0", "1", "2", "3", "4", "5", "6", "7", "8", "9">>[d + 1]

\* char::is_ascii_digit over the whole string (true of the empty string)
AllAsciiDigits(s) == \A i \in 1..Len(s) : s[i] \in Digits

RECURSIVE StripLeadingZeros(_)
StripLeadingZeros(s) ==
    IF Len(s) > 1 /\ Head(s) = "0" THEN StripLeadingZeros(Tail(s)) ELSE s

\* usize::MAX of a 64-bit target, 18446744073709551615, as text
UsizeMaxDigits ==
    <<"1", "8", "4", "4", "6", "7", "4", "4", "0", "7",
      "3", "7", "0", "9", "5", "5", "1", "6", "1", "5">>

\* a <= b for two digit strings of the same length
RECURSIVE DigitsLeq(_, _)
DigitsLeq(a, b) ==
    IF a = <<>> THEN TRUE
    ELSE IF DigitValue(Head(a)) < DigitValue(Head(b)) THEN TRUE
    ELSE IF DigitValue(Head(a)) > DigitValue(Head(b)) THEN FALSE
    ELSE DigitsLeq(Tail(a), Tail(b))

\* The value of a digit string exceeds usize::MAX
OverflowsUsize(s) ==
    LET z == StripLeadingZeros(s) IN
    \/ Len(z) > Len(UsizeMaxDigits)
    \/ Len(z) = Len(UsizeMaxDigits) /\ ~DigitsLeq(z, UsizeMaxDigits)

RECURSIVE DigitsToNat(_)
DigitsToNat(s) ==
    IF s = <<>> THEN 0
    ELSE 10 * DigitsToNat(SubSeq(s, 1, Len(s) - 1)) + DigitValue(s[Len(s)])

ParseErr == -1

\* str::parse::<usize> of a string of ASCII digits: Err on the empty string
\* and on overflow, else the value
ParseUsize(s) ==
    IF s = <<>> \/ OverflowsUsize(s) THEN ParseErr
    ELSE DigitsToNat(StripLeadingZeros(s))

RECURSIVE NatDigits(_)
NatDigits(n) ==
    IF n < 10 THEN <<DigitChar(n)>>
    ELSE Append(NatDigits(n \div 10), DigitChar(n % 10))

RECURSIVE PadZeros(_, _)
PadZeros(s, width) == IF Len(s) >= width THEN s ELSE PadZeros(<<"0">> \o s, width)

PadWidth == 3

\* format!("{n:03}")
Format03(n) == PadZeros(NatDigits(n), PadWidth)

(***************************************************************************)
(* BTreeMap<usize, V>: the entries in ascending key order                  *)
(***************************************************************************)
Keys(m) == {m[i].key : i \in 1..Len(m)}

ContainsKey(m, k) == k \in Keys(m)

Get(m, k) == m[CHOOSE i \in 1..Len(m) : m[i].key = k].value

\* A faulty variant: BTreeMap::insert that keeps the value already present
InsertKeepFirst(m, k, v) ==
    IF ContainsKey(m, k) THEN m
    ELSE LET n == Cardinality({i \in 1..Len(m) : m[i].key < k}) IN
         SubSeq(m, 1, n) \o <<[key |-> k, value |-> v]>> \o SubSeq(m, n + 1, Len(m))

\* BTreeMap::insert
Insert(m, k, v) ==
    IF ContainsKey(m, k)
    THEN [i \in 1..Len(m) |-> IF m[i].key = k THEN [key |-> k, value |-> v] ELSE m[i]]
    ELSE LET n == Cardinality({i \in 1..Len(m) : m[i].key < k}) IN
         SubSeq(m, 1, n) \o <<[key |-> k, value |-> v]>> \o SubSeq(m, n + 1, Len(m))

(***************************************************************************)
(* parse_samples (main.rs 281-351)                                         *)
(***************************************************************************)
\* The markers of classify_heading; the last two stand for the Japanese
\* markers of main.rs 333 and 335
SampleInput == "Sample Input"
SampleOutput == "Sample Output"
JaInput == "NyuuryokuRei"
JaOutput == "ShutsuryokuRei"

Whitespace == {" ", LF, CR}

\* str::trim
RECURSIVE TrimStart(_)
TrimStart(s) == IF s # <<>> /\ Head(s) \in Whitespace THEN TrimStart(Tail(s)) ELSE s

RECURSIVE TrimEnd(_)
TrimEnd(s) ==
    IF s # <<>> /\ s[Len(s)] \in Whitespace THEN TrimEnd(SubSeq(s, 1, Len(s) - 1)) ELSE s

Trim(s) == TrimEnd(TrimStart(s))

\* classify_heading: "" stands for None
ClassifyHeading(title) ==
    LET t == Trim(title) IN
    IF SampleInput \in Range(t) \/ JaInput \in Range(t) THEN "Input"
    ELSE IF SampleOutput \in Range(t) \/ JaOutput \in Range(t) THEN "Output"
    ELSE ""

\* The longest run of digits that ends the string
RECURSIVE DigitSuffix(_)
DigitSuffix(s) ==
    IF s # <<>> /\ s[Len(s)] \in Digits
    THEN Append(DigitSuffix(SubSeq(s, 1, Len(s) - 1)), s[Len(s)])
    ELSE <<>>

\* index_regex.captures(&title)[1] for (\d+)(?:\s*)$: the leftmost match is
\* the whole digit run before the trailing whitespace; <<>> stands for no match
Captures(title) == DigitSuffix(TrimEnd(title))

\* normalize_pre: raw.replace("\r\n", "\n")
RECURSIVE NormalizePre(_)
NormalizePre(raw) ==
    IF raw = <<>> THEN <<>>
    ELSE IF StartsWith(raw, <<CR, LF>>) THEN <<LF>> \o NormalizePre(Tail(Tail(raw)))
    ELSE <<Head(raw)>> \o NormalizePre(Tail(raw))

\* A faulty variant: a newline is pushed whether or not one is there
EnsureTrailingNewlineAlways(text) == Append(text, LF)

\* ensure_trailing_newline
EnsureTrailingNewline(text) ==
    IF ~EndsWith(text, <<LF>>) THEN Append(text, LF) ELSE text

\* A faulty variant: the last h3 of the section is taken
LastHeading(section) == section.headings[Len(section.headings)]

\* section.select(&heading_selector).next(), of a section that has an h3
FirstHeading(section) == Head(section.headings)

\* section.select(&pre_selector).next(), of a section that has a pre
FirstPre(section) == Head(section.pres)

\* One pass of the loop over the sections (main.rs 292-319): the two maps
\* after it
ScanSection(ins, outs, section) ==
    LET same == [inputs |-> ins, outputs |-> outs] IN
    IF section.headings = <<>> THEN same
    ELSE
      LET title == Trim(FirstHeading(section))
          kind == ClassifyHeading(title)
      IN
      IF kind = "" THEN same
      ELSE IF section.pres = <<>> THEN same
      ELSE
        LET content == NormalizePre(FirstPre(section))
            captures == Captures(title)
        IN
        IF captures = <<>> THEN same
        ELSE
          LET parsed == ParseUsize(captures)
              index == IF parsed = ParseErr THEN 0 ELSE parsed
          IN
          IF index = 0 THEN same
          ELSE IF kind = "Input"
          THEN [inputs |-> Insert(ins, index, EnsureTrailingNewline(content)),
                outputs |-> outs]
          ELSE [inputs |-> ins,
                outputs |-> Insert(outs, index, EnsureTrailingNewline(content))]

\* The loop that pairs the two maps (main.rs 322-326), from the pairs made
\* so far and the inputs still to visit
RECURSIVE CollectLoop(_, _, _)
CollectLoop(acc, ins, outs) ==
    IF ins = <<>> THEN acc
    ELSE LET e == Head(ins) IN
         CollectLoop(IF ContainsKey(outs, e.key)
                     THEN Insert(acc, e.key, [input |-> e.value, output |-> Get(outs, e.key)])
                     ELSE acc,
                     Tail(ins), outs)

\* let mut samples = BTreeMap::new(); and the loop
CollectSamples(ins, outs) == CollectLoop(<<>>, ins, outs)

\* The two maps after the loop over all the sections of a document
RECURSIVE ScanAll(_, _, _)
ScanAll(ins, outs, sections) ==
    IF sections = <<>> THEN [inputs |-> ins, outputs |-> outs]
    ELSE LET r == ScanSection(ins, outs, Head(sections))
         IN ScanAll(r.inputs, r.outputs, Tail(sections))

\* parse_samples of a document, given as the sequence of its section elements
ParseSamples(sections) ==
    LET r == ScanAll(<<>>, <<>>, sections) IN CollectSamples(r.inputs, r.outputs)

\* The documents: a document is the sequence of its section elements, each
\* with the texts of its h3 descendants and of its pre descendants, in
\* document order
MaxSections == 2

Sec(hs, ps) == [headings |-> hs, pres |-> ps]

OverflowDigits == UsizeMaxDigits \o <<"0">>

Sections ==
    { \* the four markers, two indices, texts with and without newlines
      Sec(<< <<SampleInput, " ", "1">> >>, << <<"a">> >>),
      Sec(<< <<SampleInput, " ", "1">> >>, << <<"b", LF>> >>),
      Sec(<< <<SampleOutput, " ", "1">> >>, << <<"c", LF, LF>> >>),
      Sec(<< <<SampleOutput, " ", "1">> >>, << <<>> >>),
      Sec(<< <<JaInput, " ", "2">> >>, << <<"a", CR, LF, "b", CR, LF>> >>),
      Sec(<< <<JaOutput, " ", "2">> >>, << <<"d">> >>),
      Sec(<< <<SampleInput, " ", "1", "2">> >>, << <<"b", CR, LF, CR, LF>> >>),
      Sec(<< <<SampleOutput, " ", "1", "2">> >>, << <<LF>> >>),
      \* surrounding text and whitespace, leading zeros
      Sec(<< <<" ", "x", " ", SampleInput, " ", "0", "2", " ", LF>> >>, << <<"e", CR>> >>),
      Sec(<< <<SampleInput, SampleOutput, "2">> >>, << <<"f", LF>> >>),
      \* headings that give no sample
      Sec(<< <<SampleInput, " ", "0">> >>, << <<"a">> >>),
      Sec(<< <<SampleOutput>> >>, << <<"a">> >>),
      Sec(<< <<"x", " ", "1">> >>, << <<"a">> >>),
      Sec(<< <<SampleOutput, " ", "1", " ", "x">> >>, << <<"a">> >>),
      Sec(<< <<SampleInput, " ">> \o OverflowDigits >>, << <<"a">> >>),
      \* sections without heading or pre, or with several
      Sec(<< >>, << <<"a">> >>),
      Sec(<< <<SampleInput, " ", "1">> >>, << >>),
      Sec(<< <<SampleInput, " ", "2">>, <<SampleOutput, " ", "1">> >>, << <<"g">> >>),
      Sec(<< <<"x">>, <<SampleOutput, " ", "2">> >>, << <<"h">> >>),
      Sec(<< <<SampleOutput, " ", "1">> >>, << <<"i">>, <<"j">> >>) }

\* The sections of the documents that are followed further: inputs and
\* outputs of three indices
MaxPairSections == 4

PairSections ==
    { Sec(<< <<SampleInput, " ", "1">> >>, << <<"a">> >>),
      Sec(<< <<SampleInput, " ", "1">> >>, << <<"b", LF>> >>),
      Sec(<< <<SampleOutput, " ", "1">> >>, << <<"c", LF, LF>> >>),
      Sec(<< <<JaInput, " ", "2">> >>, << <<"a", CR, LF, "b", CR, LF>> >>),
      Sec(<< <<JaOutput, " ", "2">> >>, << <<"d">> >>),
      Sec(<< <<SampleInput, " ", "1", "2">> >>, << <<"b", CR, LF, CR, LF>> >>),
      Sec(<< <<SampleOutput, " ", "1", "2">> >>, << <<LF>> >>),
      Sec(<< <<SampleInput, SampleOutput, "2">> >>, << <<"f", LF>> >>) }

\* The loop of parse_samples meets the next section of the document
Scan ==
    \E section \in Sections :
        /\ pcP = "scan"
        /\ Len(doc) < MaxSections
        /\ doc' = Append(doc, section)
        /\ LET r == ScanSection(inputs, outputs, section) IN
           /\ inputs' = r.inputs
           /\ outputs' = r.outputs
        /\ UNCHANGED <<samples, pcP>>
        /\ UNCHANGED <<varsT, varsF>>

\* The same pass, in the documents of PairSections
ScanPair ==
    \E section \in PairSections :
        /\ pcP = "scan"
        /\ Len(doc) < MaxPairSections
        /\ doc' = Append(doc, section)
        /\ LET r == ScanSection(inputs, outputs, section) IN
           /\ inputs' = r.inputs
           /\ outputs' = r.outputs
        /\ UNCHANGED <<samples, pcP>>
        /\ UNCHANGED <<varsT, varsF>>

\* The document ends: the pairs are collected and returned
Collect ==
    /\ pcP = "scan"
    /\ samples' = CollectSamples(inputs, outputs)
    /\ pcP' = "done"
    /\ UNCHANGED <<doc, inputs, outputs>>
    /\ UNCHANGED <<varsT, varsF>>

(***************************************************************************)
(* The file system under the tests root: the directories that exist and    *)
(* the content of every file that exists                                   *)
(***************************************************************************)
ExtIn == <<".", "i", "n">>
ExtOut == <<".", "o", "u", "t">>

\* dir.join(name)
Join(dir, name) == [dir |-> dir, name |-> name]

\* Path::exists
Exists(f, path) == path \in DOMAIN f

\* fs::write
Write(f, path, content) ==
    [q \in DOMAIN f \cup {path} |-> IF q = path THEN content ELSE f[q]]

(***************************************************************************)
(* candidate_inputs and run_case (main.rs 184-195, 270-279)                *)
(***************************************************************************)
\* A faulty variant: the padded candidate is probed first
CandidateInputsPaddedFirst(dir, case) ==
    IF AllAsciiDigits(case) /\ ParseUsize(case) # ParseErr
    THEN <<Join(dir, Format03(ParseUsize(case)) \o ExtIn), Join(dir, case \o ExtIn)>>
    ELSE <<Join(dir, case \o ExtIn)>>

\* candidate_inputs
CandidateInputs(dir, case) ==
    LET first == <<Join(dir, case \o ExtIn)>> IN
    IF AllAsciiDigits(case)
    THEN IF ParseUsize(case) # ParseErr
         THEN Append(first, Join(dir, Format03(ParseUsize(case)) \o ExtIn))
         ELSE first
    ELSE first

\* args.case.unwrap_or_else(|| "001".to_string()); an Option is a sequence
\* of at most one element
DefaultCase == <<"0", "0", "1">>

UnwrapCase(opt) == IF opt = <<>> THEN DefaultCase ELSE opt[1]

\* candidates.into_iter().find(|path| path.exists()): the position of the
\* first candidate that exists, 0 when there is none
FindExisting(f, candidates) ==
    LET hits == {i \in 1..Len(candidates) : Exists(f, candidates[i])} IN
    IF hits = {} THEN 0 ELSE CHOOSE i \in hits : \A j \in hits : i <= j

NoPath == Join(<<>>, <<>>)

NoRun ==
    [kind |-> "none", bin |-> <<>>, case |-> <<>>, candidates |-> <<>>,
     path |-> NoPath, input |-> <<>>, dir |-> <<>>, token |-> <<>>]

\* run_case up to the input it pipes to cargo run: the file it resolved
\* and read, or the error that names the case and the directory
RunCaseResult(f, bin, opt) ==
    LET case == UnwrapCase(opt)
        dir == bin
        candidates == CandidateInputs(dir, case)
        found == FindExisting(f, candidates)
    IN
    IF found = 0
    THEN [kind |-> "not_found", bin |-> bin, case |-> opt, candidates |-> candidates,
          path |-> NoPath, input |-> <<>>, dir |-> dir, token |-> case]
    ELSE [kind |-> "resolved", bin |-> bin, case |-> opt, candidates |-> candidates,
          path |-> candidates[found], input |-> f[candidates[found]],
          dir |-> dir, token |-> case]

(***************************************************************************)
(* fetch_samples (main.rs 131-173)                                         *)
(***************************************************************************)
NoFault == [at |-> "none", key |-> 0]

\* The file-system calls of one fetch that may fail: create_dir_all, or the
\* write of the .in or of the .out file of one sample.  A call that fails
\* changes nothing.
FaultsOf(collection) ==
    {NoFault, [at |-> "create_dir_all", key |-> 0]}
        \cup {[at |-> a, key |-> k] : a \in {"in", "out"}, k \in Keys(collection)}

\* A faulty variant: the input is written before the test that skips the pair
RECURSIVE WriteLoopInputFirst(_, _, _, _, _, _)
WriteLoopInputFirst(st, entries, out_dir, overwrite, fault, call) ==
    IF entries = <<>> THEN [st EXCEPT !.result = "ok"]
    ELSE
      LET index == Head(entries).key
          sample == Head(entries).value
          file_stem == Format03(index)
          input_path == Join(out_dir, file_stem \o ExtIn)
          output_path == Join(out_dir, file_stem \o ExtOut)
          by == [call |-> call, index |-> index, sample |-> sample]
      IN
      IF fault = [at |-> "in", key |-> index]
      THEN [st EXCEPT !.result = "io_error"]
      ELSE
        LET st1 == [st EXCEPT !.fs = Write(@, input_path, sample.input),
                              !.origin = Write(@, input_path, by)]
        IN
        IF ~overwrite /\ Exists(st.fs, input_path) /\ Exists(st.fs, output_path)
        THEN WriteLoopInputFirst(
                 [st1 EXCEPT !.out = Append(@, [line |-> "skip", stem |-> file_stem])],
                 Tail(entries), out_dir, overwrite, fault, call)
        ELSE IF fault = [at |-> "out", key |-> index]
        THEN [st1 EXCEPT !.result = "io_error"]
        ELSE WriteLoopInputFirst(
                 [st1 EXCEPT !.fs = Write(@, output_path, sample.output),
                             !.origin = Write(@, output_path, by),
                             !.out = Append(@, [line |-> "wrote", stem |-> file_stem]),
                             !.written = @ + 1],
                 Tail(entries), out_dir, overwrite, fault, call)

\* A faulty variant: a pair is skipped as soon as one of its two files exists
RECURSIVE WriteLoopSkipEither(_, _, _, _, _, _)
WriteLoopSkipEither(st, entries, out_dir, overwrite, fault, call) ==
    IF entries = <<>> THEN [st EXCEPT !.result = "ok"]
    ELSE
      LET index == Head(entries).key
          sample == Head(entries).value
          file_stem == Format03(index)
          input_path == Join(out_dir, file_stem \o ExtIn)
          output_path == Join(out_dir, file_stem \o ExtOut)
          by == [call |-> call, index |-> index, sample |-> sample]
      IN
      IF ~overwrite /\ (Exists(st.fs, input_path) \/ Exists(st.fs, output_path))
      THEN WriteLoopSkipEither(
               [st EXCEPT !.out = Append(@, [line |-> "skip", stem |-> file_stem])],
               Tail(entries), out_dir, overwrite, fault, call)
      ELSE IF fault = [at |-> "in", key |-> index]
      THEN [st EXCEPT !.result = "io_error"]
      ELSE
        LET st1 == [st EXCEPT !.fs = Write(@, input_path, sample.input),
                              !.origin = Write(@, input_path, by)]
        IN
        IF fault = [at |-> "out", key |-> index]
        THEN [st1 EXCEPT !.result = "io_error"]
        ELSE WriteLoopSkipEither(
                 [st1 EXCEPT !.fs = Write(@, output_path, sample.output),
                             !.origin = Write(@, output_path, by),
                             !.out = Append(@, [line |-> "wrote", stem |-> file_stem]),
                             !.written = @ + 1],
                 Tail(entries), out_dir, overwrite, fault, call)

\* The write loop (main.rs 143-166) from one entry of the collection on:
\* st holds the files, who wrote them, the count and the lines printed
RECURSIVE WriteLoop(_, _, _, _, _, _)
WriteLoop(st, entries, out_dir, overwrite, fault, call) ==
    IF entries = <<>> THEN [st EXCEPT !.result = "ok"]
    ELSE
      LET index == Head(entries).key
          sample == Head(entries).value
          file_stem == Format03(index)
          input_path == Join(out_dir, file_stem \o ExtIn)
          output_path == Join(out_dir, file_stem \o ExtOut)
          by == [call |-> call, index |-> index, sample |-> sample]
      IN
      IF ~overwrite /\ Exists(st.fs, input_path) /\ Exists(st.fs, output_path)
      THEN WriteLoop([st EXCEPT !.out = Append(@, [line |-> "skip", stem |-> file_stem])],
                     Tail(entries), out_dir, overwrite, fault, call)
      ELSE IF fault = [at |-> "in", key |-> index]
      THEN [st EXCEPT !.result = "io_error"]
      ELSE
        LET st1 == [st EXCEPT !.fs = Write(@, input_path, sample.input),
                              !.origin = Write(@, input_path, by)]
        IN
        IF fault = [at |-> "out", key |-> index]
        THEN [st1 EXCEPT !.result = "io_error"]
        ELSE WriteLoop([st1 EXCEPT !.fs = Write(@, output_path, sample.output),
                                   !.origin = Write(@, output_path, by),
                                   !.out = Append(@, [line |-> "wrote", stem |-> file_stem]),
                                   !.written = @ + 1],
                       Tail(entries), out_dir, overwrite, fault, call)

NoneWritten == [line |-> "no new samples were written", stem |-> <<>>]

\* A faulty variant: an empty collection is not an error
FetchSamplesNoBail(st, task, collection, overwrite, fault, call) ==
    LET out_dir == ToAsciiLowercase(task) IN
    IF fault.at = "create_dir_all" THEN [st EXCEPT !.result = "io_error"]
    ELSE
      LET done == WriteLoop([st EXCEPT !.dirs = @ \cup {out_dir}],
                            collection, out_dir, overwrite, fault, call)
      IN
      IF done.result = "ok" /\ done.written = 0
      THEN [done EXCEPT !.out = Append(@, NoneWritten)]
      ELSE done

\* A faulty variant: the task directory keeps the letter case of the task
FetchSamplesNoLower(st, task, collection, overwrite, fault, call) ==
    LET out_dir == task IN
    IF collection = <<>> THEN [st EXCEPT !.result = "no samples found"]
    ELSE IF fault.at = "create_dir_all" THEN [st EXCEPT !.result = "io_error"]
    ELSE
      LET done == WriteLoop([st EXCEPT !.dirs = @ \cup {out_dir}],
                            collection, out_dir, overwrite, fault, call)
      IN
      IF done.result = "ok" /\ done.written = 0
      THEN [done EXCEPT !.out = Append(@, NoneWritten)]
      ELSE done

\* fetch_samples from the parsed samples on (main.rs 132-172)
FetchSamples(st, task, collection, overwrite, fault, call) ==
    LET out_dir == ToAsciiLowercase(task) IN
    IF collection = <<>> THEN [st EXCEPT !.result = "no samples found"]
    ELSE IF fault.at = "create_dir_all" THEN [st EXCEPT !.result = "io_error"]
    ELSE
      LET done == WriteLoop([st EXCEPT !.dirs = @ \cup {out_dir}],
                            collection, out_dir, overwrite, fault, call)
      IN
      IF done.result = "ok" /\ done.written = 0
      THEN [done EXCEPT !.out = Append(@, NoneWritten)]
      ELSE done

MaxFetches == 2

Tasks == {<<"a">>, <<"A">>}

Bins == {<<"a">>, <<"A">>}

\* The pages a fetch may download
Bodies ==
    { << Sec(<< <<SampleInput, " ", "1">> >>, << <<"a">> >>),
         Sec(<< <<SampleOutput, " ", "1">> >>, << <<"c", LF, LF>> >>) >>,
      << Sec(<< <<SampleInput, " ", "1">> >>, << <<"b", LF>> >>),
         Sec(<< <<SampleOutput, " ", "1">> >>, << <<>> >>),
         Sec(<< <<JaInput, " ", "2">> >>, << <<"a", CR, LF, "b", CR, LF>> >>),
         Sec(<< <<JaOutput, " ", "2">> >>, << <<"d">> >>) >>,
      << Sec(<< <<SampleInput, " ", "1", "2">> >>, << <<"b", CR, LF, CR, LF>> >>),
         Sec(<< <<SampleOutput, " ", "1", "2">> >>, << <<LF>> >>) >>,
      << Sec(<< <<"x", " ", "1">> >>, << <<"a">> >>) >>,
      << Sec(<< <<SampleInput, " ", "1">> >>, << <<"a">> >>),
         Sec(<< <<SampleOutput, " ", "2">> >>, << <<"d">> >>) >> }

NoFetch ==
    [task |-> <<>>, body |-> <<>>, collection |-> <<>>, overwrite |-> FALSE,
     result |-> "none", written |-> 0, out |-> <<>>]

EmptyFs == <<>>

\* One invocation of fetch: the page is downloaded (main.rs 100-129, which
\* gave the body), parsed (main.rs 131) and its samples written
Fetch ==
    \E body \in Bodies :
      LET collection == ParseSamples(body) IN
      \E task \in Tasks, overwrite \in BOOLEAN, fault \in FaultsOf(collection) :
        /\ nfetch < MaxFetches
        /\ nfetch' = nfetch + 1
        /\ LET st == [fs |-> fs, dirs |-> dirs, origin |-> origin, written |-> 0,
                      out |-> <<>>, result |-> "none"]
               r == FetchSamples(st, task, collection, overwrite, fault, nfetch + 1)
           IN
           /\ fs' = r.fs
           /\ dirs' = r.dirs
           /\ origin' = r.origin
           /\ faulted' = (faulted \/ r.result = "io_error")
           /\ fetched' = [task |-> task, body |-> body, collection |-> collection,
                          overwrite |-> overwrite, result |-> r.result,
                          written |-> r.written, out |-> r.out]
        /\ run' = NoRun
        /\ UNCHANGED <<varsT, varsP>>

\* The first fetch, into the task directory that does not exist yet
FetchFirst ==
    /\ nfetch = 0
    /\ Fetch

\* The cases run is asked for after a fetch: spellings of the indices, and
\* the case left out
FetchedCases ==
    { <<>>, << <<"1">> >>, << <<"0", "1">> >>, << <<"0", "0", "1">> >>,
      << <<"0", "0", "0", "1">> >>, << <<"2">> >>, << <<"0", "0", "2">> >>,
      << <<"1", "2">> >>, << <<"0", "1", "2">> >>, << <<"0", "0", "1", "2">> >> }

\* One invocation of run, after the fetch
RunFetched ==
    \E bin \in Bins, opt \in FetchedCases :
        /\ nfetch > 0
        /\ run.kind = "none"
        /\ run' = RunCaseResult(fs, bin, opt)
        /\ UNCHANGED <<dirs, fs, nfetch, faulted, origin, fetched>>
        /\ UNCHANGED <<varsT, varsP>>

\* The cases run is asked for in a directory of any files
MaxCaseLen == 3

CaseChars == {"0", "7", "x"}

Cases ==
    {<<>>, <<OverflowDigits>>} \cup {<<c>> : c \in SeqUpTo(CaseChars, MaxCaseLen)}

\* The files the directory tests/a may hold when run is called
StrayStems ==
    { <<"7">>, <<"0", "0", "7">>, <<"x">>, <<>>, <<"0", "0", "1">>, <<"0", "0", "0">> }

StrayDirs ==
    { [p \in {Join(<<"a">>, stem \o ExtIn) : stem \in stems} |-> p.name] :
        stems \in SUBSET StrayStems }

\* One invocation of run
RunCase ==
    \E bin \in Bins, opt \in Cases :
        /\ run.kind = "none"
        /\ run' = RunCaseResult(fs, bin, opt)
        /\ UNCHANGED <<dirs, fs, nfetch, faulted, origin, fetched>>
        /\ UNCHANGED <<varsT, varsP>>

(***************************************************************************)
(* The specifications                                                      *)
(***************************************************************************)
\* run_tests, on every target
InitTarget ==
    /\ target \in Targets
    /\ pcT = "start"
    /\ test_name = <<>>
    /\ task_slug = <<>>
    /\ filter_args = <<>>
    /\ rerun = NoRerun
    /\ doc = <<>>
    /\ inputs = <<>>
    /\ outputs = <<>>
    /\ samples = <<>>
    /\ pcP = "idle"
    /\ dirs = {}
    /\ fs = EmptyFs
    /\ nfetch = 0
    /\ faulted = FALSE
    /\ origin = EmptyFs
    /\ fetched = NoFetch
    /\ run = NoRun

NextTarget == RunTests \/ RunTestsAgain

SpecTarget == InitTarget /\ [][NextTarget]_vars

\* parse_samples, on every document of at most MaxSections sections
InitParse ==
    /\ target = <<>>
    /\ pcT = "idle"
    /\ test_name = <<>>
    /\ task_slug = <<>>
    /\ filter_args = <<>>
    /\ rerun = NoRerun
    /\ doc = <<>>
    /\ inputs = <<>>
    /\ outputs = <<>>
    /\ samples = <<>>
    /\ pcP = "scan"
    /\ dirs = {}
    /\ fs = EmptyFs
    /\ nfetch = 0
    /\ faulted = FALSE
    /\ origin = EmptyFs
    /\ fetched = NoFetch
    /\ run = NoRun

NextParse == Scan \/ Collect

SpecParse == InitParse /\ [][NextParse]_vars

\* parse_samples, on the documents of at most MaxPairSections of PairSections
NextPairs == ScanPair \/ Collect

SpecPairs == InitParse /\ [][NextPairs]_vars

\* fetch invocations of one task, from the task directory that does not exist
InitFetch ==
    /\ target = <<>>
    /\ pcT = "idle"
    /\ test_name = <<>>
    /\ task_slug = <<>>
    /\ filter_args = <<>>
    /\ rerun = NoRerun
    /\ doc = <<>>
    /\ inputs = <<>>
    /\ outputs = <<>>
    /\ samples = <<>>
    /\ pcP = "idle"
    /\ dirs = {}
    /\ fs = EmptyFs
    /\ nfetch = 0
    /\ faulted = FALSE
    /\ origin = EmptyFs
    /\ fetched = NoFetch
    /\ run = NoRun

NextFetch == Fetch

SpecFetch == InitFetch /\ [][NextFetch]_vars

\* one fetch, then one run
NextRoundTrip == FetchFirst \/ RunFetched

SpecRoundTrip == InitFetch /\ [][NextRoundTrip]_vars

\* run, in a directory of any files
InitCase ==
    /\ target = <<>>
    /\ pcT = "idle"
    /\ test_name = <<>>
    /\ task_slug = <<>>
    /\ filter_args = <<>>
    /\ rerun = NoRerun
    /\ doc = <<>>
    /\ inputs = <<>>
    /\ outputs = <<>>
    /\ samples = <<>>
    /\ pcP = "idle"
    /\ dirs = {<<"a">>}
    /\ fs \in StrayDirs
    /\ nfetch = 0
    /\ faulted = FALSE
    /\ origin = EmptyFs
    /\ fetched = NoFetch
    /\ run = NoRun

NextCase == RunCase

SpecCase == InitCase /\ [][NextCase]_vars

Spec == SpecFetch

(***************************************************************************)
(* The sample texts (C1)                                                   *)
(***************************************************************************)
\* What a section is classified as, by its first heading
KindOf(section) ==
    IF section.headings = <<>> THEN "" ELSE ClassifyHeading(Head(section.headings))

\* The index detected on a section, 0 when there is none
DetectedIndex(section) ==
    IF section.headings = <<>> \/ section.pres = <<>> THEN 0
    ELSE LET c == Captures(Trim(Head(section.headings))) IN
         IF c = <<>> \/ ParseUsize(c) = ParseErr THEN 0 ELSE ParseUsize(c)

\* The indices detected on the sections of one kind
Seen(d, kind) ==
    {DetectedIndex(d[i]) : i \in {j \in 1..Len(d) : KindOf(d[j]) = kind}} \ {0}

\* The last section of the document of that kind and index
LastOf(d, kind, k) ==
    LET at == {i \in 1..Len(d) : KindOf(d[i]) = kind /\ DetectedIndex(d[i]) = k} IN
    d[CHOOSE i \in at : \A j \in at : j <= i]

ExactlyOneNewline(text) == EndsWith(text, <<LF>>) /\ ~EndsWith(text, <<LF, LF>>)

\* The text is the pre text with CRLF made LF, and one newline more exactly
\* when that did not end with one
NewlineEnsured(text, raw) ==
    LET n == NormalizePre(raw) IN
    /\ EndsWith(text, <<LF>>)
    /\ EndsWith(n, <<LF>>) => text = n
    /\ ~EndsWith(n, <<LF>>) => text = n \o <<LF>>

\* C1 as claimed: every input and output text of the pairs parse_samples
\* returns ends with exactly one newline
C1_ExactlyOneNewline ==
    pcP = "done" =>
        \A i \in 1..Len(samples) :
            /\ ExactlyOneNewline(samples[i].value.input)
            /\ ExactlyOneNewline(samples[i].value.output)

\* C1 (amended): every input and output text of the pairs parse_samples
\* returns ends with a newline; it is the text of the section's first pre
\* with CRLF replaced by LF, followed by one more newline exactly when that
\* text did not end with one.  Newlines that were there are all kept.
C1_NewlineEnsured ==
    pcP = "done" =>
        \A i \in 1..Len(samples) :
            LET k == samples[i].key IN
            /\ NewlineEnsured(samples[i].value.input,
                              Head(LastOf(doc, "Input", k).pres))
            /\ NewlineEnsured(samples[i].value.output,
                              Head(LastOf(doc, "Output", k).pres))

\* A pair whose input had no newline and got one, and whose output came
\* with two and kept them
C1_Witness ==
    /\ pcP = "done"
    /\ \E i \in 1..Len(samples) :
        /\ ~EndsWith(Head(LastOf(doc, "Input", samples[i].key).pres), <<LF>>)
        /\ ExactlyOneNewline(samples[i].value.input)
        /\ EndsWith(samples[i].value.output, <<LF, LF>>)

(***************************************************************************)
(* The collection (C2)                                                     *)
(***************************************************************************)
TextOf(section) == EnsureTrailingNewline(NormalizePre(Head(section.pres)))

\* C2: the keys of the collection parse_samples returns are the indices
\* detected both on an input section and on an output section; each appears
\* once, in strictly ascending order, with the texts of the last input and
\* the last output section of that index
C2_Intersection ==
    pcP = "done" =>
        /\ Keys(samples) = Seen(doc, "Input") \cap Seen(doc, "Output")
        /\ \A i, j \in 1..Len(samples) : i < j => samples[i].key < samples[j].key
        /\ \A i \in 1..Len(samples) :
             LET k == samples[i].key IN
             /\ samples[i].value.input = TextOf(LastOf(doc, "Input", k))
             /\ samples[i].value.output = TextOf(LastOf(doc, "Output", k))

\* Two pairs met out of order, an index seen as input alone that is dropped,
\* and an input seen twice
C2_WitnessOrder ==
    /\ pcP = "done"
    /\ Len(samples) = 2
    /\ \E i, j \in 1..Len(doc) :
        /\ i < j
        /\ DetectedIndex(doc[i]) > DetectedIndex(doc[j])
        /\ {DetectedIndex(doc[i]), DetectedIndex(doc[j])} = Keys(samples)

\* An index seen as input alone is dropped, and of an input seen twice the
\* later text is kept
C2_Witness ==
    /\ pcP = "done"
    /\ Seen(doc, "Input") \ Keys(samples) # {}
    /\ \E i, j \in 1..Len(doc) :
        /\ i < j
        /\ KindOf(doc[i]) = "Input" /\ KindOf(doc[j]) = "Input"
        /\ DetectedIndex(doc[i]) = DetectedIndex(doc[j])
        /\ DetectedIndex(doc[i]) \in Keys(samples)
        /\ TextOf(doc[i]) # TextOf(doc[j])

(***************************************************************************)
(* The sections that are ignored (C3)                                      *)
(***************************************************************************)
\* C3 as claimed: a section without heading, with more than one heading or
\* without pre changes neither map
C3_ExactlyOneHeading ==
    [][Len(doc') = Len(doc) + 1 =>
         LET section == doc'[Len(doc')] IN
         (Len(section.headings) # 1 \/ section.pres = <<>>) =>
             inputs' = inputs /\ outputs' = outputs]_vars

\* What the section gives, read from its first heading alone
GivesBy(section, ins, outs, ins2, outs2) ==
    LET k == DetectedIndex(section) IN
    IF KindOf(section) = "" \/ k = 0 THEN ins2 = ins /\ outs2 = outs
    ELSE IF KindOf(section) = "Input"
    THEN /\ outs2 = outs
         /\ Keys(ins2) = Keys(ins) \cup {k}
         /\ Get(ins2, k) = TextOf(section)
         /\ \A q \in Keys(ins) \ {k} : Get(ins2, q) = Get(ins, q)
    ELSE /\ ins2 = ins
         /\ Keys(outs2) = Keys(outs) \cup {k}
         /\ Get(outs2, k) = TextOf(section)
         /\ \A q \in Keys(outs) \ {k} : Get(outs2, q) = Get(outs, q)

\* C3 (amended): a section without heading or without pre changes neither
\* map; a section with more than one heading is not ignored: it is read by
\* its first heading alone, whatever the other headings say
C3_FirstHeading ==
    [][Len(doc') = Len(doc) + 1 =>
         LET section == doc'[Len(doc')] IN
         /\ (section.headings = <<>> \/ section.pres = <<>>) =>
                inputs' = inputs /\ outputs' = outputs
         /\ GivesBy(section, inputs, outputs, inputs', outputs')]_vars

\* A section with two headings has given an input, after a section without
\* pre that gave nothing
C3_Witness ==
    /\ Len(doc) = 2
    /\ doc[1].pres = <<>> /\ KindOf(doc[1]) = "Input"
    /\ Len(doc[2].headings) > 1
    /\ Keys(inputs) = {DetectedIndex(doc[2])}

(***************************************************************************)
(* run_tests (C4, C5)                                                      *)
(***************************************************************************)
\* C4: with L the lowercased target, when L ends with _test the binary is L
\* and the slug is L without that one suffix, otherwise the slug is L and
\* the binary is L_test; the filter after --exact is <slug>_all_cases
C4_OneSuffixStripped ==
    pcT \in {"built", "rebuilt"} =>
        LET L == ToAsciiLowercase(target)
            slug == IF EndsWith(L, TestSuffix)
                    THEN SubSeq(L, 1, Len(L) - Len(TestSuffix))
                    ELSE L
        IN
        /\ test_name = (IF EndsWith(L, TestSuffix) THEN L ELSE L \o TestSuffix)
        /\ task_slug = slug
        /\ filter_args = <<Exact, slug \o AllCases>>

\* C5: the binary name a target gives, given as the target, gives the same
\* binary name and the same filter; and a target t that does not end with
\* _test gives what t followed by _test gives, in whatever letter case
C5_Idempotent ==
    /\ pcT = "rebuilt" =>
           rerun = [test_name |-> test_name, filter_args |-> filter_args]
    /\ pcT \in {"built", "rebuilt"} /\ ~EndsWith(Normalized(target), TestSuffix) =>
           \A u \in Targets :
               Normalized(u) = Normalized(target) \o TestSuffix =>
                   /\ TestNameOf(u) = test_name
                   /\ FilterArgsOf(u) = filter_args

\* B has given b_test and b_all_cases, and b_test has given them again
C5_Witness ==
    /\ pcT = "rebuilt"
    /\ target = <<"B">>
    /\ rerun.test_name = <<"b">> \o TestSuffix
    /\ rerun.filter_args = <<Exact, <<"b">> \o AllCases>>
    /\ \E u \in Targets : u # test_name /\ Normalized(u) = test_name

(***************************************************************************)
(* candidate_inputs and the resolution of run_case (C6)                    *)
(***************************************************************************)
\* The digits of a token, zero-padded to at least three
PaddedSpelling(t) == PadZeros(StripLeadingZeros(t), PadWidth)

\* What run_case resolves to, given the candidates it probed
FirstExistingWins ==
    LET hits == {i \in 1..Len(run.candidates) : run.candidates[i] \in DOMAIN fs} IN
    IF hits = {}
    THEN /\ run.kind = "not_found"
         /\ run.token = UnwrapCase(run.case)
         /\ run.dir = run.bin
    ELSE /\ run.kind = "resolved"
         /\ \E i \in hits :
              /\ \A j \in hits : i <= j
              /\ run.path = run.candidates[i]
              /\ run.input = fs[run.candidates[i]]

\* C6 as claimed: the candidates are D/<t>.in and, for every token t of
\* decimal digits, exactly one more, D/<NNN>.in; run_case takes the first
\* that exists, or fails naming the token and the directory
C6_EveryDigitToken ==
    run.kind # "none" =>
        LET t == UnwrapCase(run.case)
            D == run.bin
        IN
        /\ run.candidates[1] = Join(D, t \o ExtIn)
        /\ IF t # <<>> /\ AllAsciiDigits(t)
           THEN run.candidates = <<Join(D, t \o ExtIn), Join(D, PaddedSpelling(t) \o ExtIn)>>
           ELSE run.candidates = <<Join(D, t \o ExtIn)>>
        /\ FirstExistingWins

\* C6 (amended): the candidates are D/<t>.in and, for every non-empty token
\* t of decimal digits whose value fits usize, exactly one more, D/<NNN>.in
\* with NNN the value zero-padded to at least 3 digits; for every other
\* token, the empty one and the digit strings beyond usize::MAX included,
\* the list is D/<t>.in alone; run_case takes the first that exists, or
\* fails naming the token and the directory
C6_DigitTokenInRange ==
    run.kind # "none" =>
        LET t == UnwrapCase(run.case)
            D == run.bin
        IN
        /\ run.candidates[1] = Join(D, t \o ExtIn)
        /\ IF t # <<>> /\ AllAsciiDigits(t) /\ ~OverflowsUsize(t)
           THEN run.candidates = <<Join(D, t \o ExtIn), Join(D, PaddedSpelling(t) \o ExtIn)>>
           ELSE run.candidates = <<Join(D, t \o ExtIn)>>
        /\ FirstExistingWins

\* Case 7 in a directory that holds 007.in and no 7.in
C6_Witness ==
    /\ run.kind = "resolved"
    /\ run.case = << <<"7">> >>
    /\ Len(run.candidates) = 2
    /\ run.candidates[1] \notin DOMAIN fs
    /\ run.path = Join(<<"a">>, <<"0", "0", "7">> \o ExtIn)

(***************************************************************************)
(* The write loop (C7)                                                     *)
(***************************************************************************)
InputPath(dir, k) == Join(dir, Format03(k) \o ExtIn)
OutputPath(dir, k) == Join(dir, Format03(k) \o ExtOut)

\* C7: in a fetch that completes, a pair whose two files both exist is left
\* as it is and not counted when overwrite is not set; every other pair is
\* written, both files, and counted once; the files of other indices are
\* never touched; the notice is printed exactly when the count is zero
C7_WriteLoop ==
    [][nfetch' = nfetch + 1 =>
         LET c == fetched'
             dir == ToAsciiLowercase(c.task)
             Skipped(k) ==
                 /\ ~c.overwrite
                 /\ InputPath(dir, k) \in DOMAIN fs
                 /\ OutputPath(dir, k) \in DOMAIN fs
             targets == UNION {{InputPath(dir, k), OutputPath(dir, k)} :
                                  k \in Keys(c.collection)}
         IN
         /\ c.result = "ok" =>
              /\ \A i \in 1..Len(c.collection) :
                   LET k == c.collection[i].key
                       sample == c.collection[i].value
                   IN
                   IF Skipped(k)
                   THEN /\ fs'[InputPath(dir, k)] = fs[InputPath(dir, k)]
                        /\ fs'[OutputPath(dir, k)] = fs[OutputPath(dir, k)]
                   ELSE /\ {InputPath(dir, k), OutputPath(dir, k)} \subseteq DOMAIN fs'
                        /\ fs'[InputPath(dir, k)] = sample.input
                        /\ fs'[OutputPath(dir, k)] = sample.output
              /\ c.written = Cardinality({k \in Keys(c.collection) : ~Skipped(k)})
              /\ (NoneWritten \in Range(c.out)) <=> (c.written = 0)
         /\ \A p \in (DOMAIN fs \cup DOMAIN fs') \ targets :
              /\ p \in DOMAIN fs /\ p \in DOMAIN fs'
              /\ fs'[p] = fs[p]]_vars

\* A fetch without overwrite has skipped one pair, whose files were there,
\* and written the other
C7_Witness ==
    /\ fetched.result = "ok"
    /\ ~fetched.overwrite
    /\ Len(fetched.collection) = 2
    /\ fetched.written = 1
    /\ \E i \in 1..Len(fetched.out) : fetched.out[i].line = "skip"
    /\ NoneWritten \notin Range(fetched.out)

(***************************************************************************)
(* No samples (C8)                                                         *)
(***************************************************************************)
\* C8: when the page holds no index seen both as input and as output, fetch
\* ends with the error "no samples found", and neither the directories nor
\* the files have changed
C8_NoSamples ==
    [][(/\ nfetch' = nfetch + 1
        /\ Seen(fetched'.body, "Input") \cap Seen(fetched'.body, "Output") = {}) =>
           /\ fetched'.result = "no samples found"
           /\ fs' = fs
           /\ dirs' = dirs]_vars

\* The first fetch met a page of an input and an output of different
\* indices, and the task directory is not there
C8_Witness ==
    /\ nfetch = 1
    /\ fetched.result = "no samples found"
    /\ Seen(fetched.body, "Input") # {}
    /\ Seen(fetched.body, "Output") # {}
    /\ dirs = {}
    /\ fs = EmptyFs

(***************************************************************************)
(* Pair coherence (C9)                                                     *)
(***************************************************************************)
TaskDirs == {ToAsciiLowercase(t) : t \in Tasks}

\* The indices the pages show
PageIndices == UNION {Seen(b, "Input") \cup Seen(b, "Output") : b \in Bodies}

\* C9: as long as no fetch has met a file-system error, the .in and the
\* .out file of an index exist together, and hold the input and the output
\* of one pair, written by one invocation
C9_Coherent ==
    ~faulted =>
        \A p \in DOMAIN fs :
            \E dir \in TaskDirs, k \in PageIndices :
                /\ p \in {InputPath(dir, k), OutputPath(dir, k)}
                /\ {InputPath(dir, k), OutputPath(dir, k)} \subseteq DOMAIN fs
                /\ origin[InputPath(dir, k)] = origin[OutputPath(dir, k)]
                /\ origin[p].index = k
                /\ fs[InputPath(dir, k)] = origin[p].sample.input
                /\ fs[OutputPath(dir, k)] = origin[p].sample.output

\* The same of every run of fetches, those that met an error included
C9_CoherentDespiteFaults ==
    \A p \in DOMAIN fs :
        \E dir \in TaskDirs, k \in PageIndices :
            /\ p \in {InputPath(dir, k), OutputPath(dir, k)}
            /\ {InputPath(dir, k), OutputPath(dir, k)} \subseteq DOMAIN fs
            /\ origin[InputPath(dir, k)] = origin[OutputPath(dir, k)]

\* After two fetches without error the directory holds a pair of the first
\* fetch, which the second skipped, beside a pair of the second
C9_Witness ==
    /\ ~faulted
    /\ nfetch = 2
    /\ \E p, q \in DOMAIN fs : origin[p].call = 1 /\ origin[q].call = 2
    /\ \E i \in 1..Len(fetched.out) : fetched.out[i].line = "skip"

(***************************************************************************)
(* Fetch, then run (C10)                                                   *)
(***************************************************************************)
\* A decimal spelling of k, padded with zeros or not
IsSpelling(t, k) ==
    t # <<>> /\ AllAsciiDigits(t) /\ StripLeadingZeros(t) = NatDigits(k)

\* run, with the lowercased task as bin, resolves every spelling of an
\* index the fetch wrote to the input file written for it
SpellingsResolve ==
    \A i \in 1..Len(fetched.collection) :
        LET k == fetched.collection[i].key IN
        (run.case # <<>> /\ IsSpelling(run.case[1], k)) =>
            /\ run.kind = "resolved"
            /\ run.path = InputPath(run.bin, k)
            /\ run.input = fetched.collection[i].value.input

DefaultResolves ==
    /\ run.kind = "resolved"
    /\ run.path = InputPath(run.bin, 1)
    /\ origin[run.path].index = 1

\* C10 as claimed: after a fetch of task t that succeeded, run with bin the
\* lowercased t resolves every spelling of a written index to its input
\* file, and resolves the omitted case to the file of index 1
C10_DefaultAlways ==
    (/\ run.kind # "none"
     /\ fetched.result = "ok"
     /\ run.bin = ToAsciiLowercase(fetched.task)) =>
        /\ SpellingsResolve
        /\ run.case = <<>> => DefaultResolves

\* C10 (amended): after a fetch of task t that succeeded, run with bin the
\* lowercased t resolves every spelling of a written index to its input
\* file; it resolves the omitted case to the file of index 1 when the fetch
\* wrote index 1, and fails with not found when it did not
C10_DefaultWhenFetched ==
    (/\ run.kind # "none"
     /\ fetched.result = "ok"
     /\ run.bin = ToAsciiLowercase(fetched.task)) =>
        /\ SpellingsResolve
        /\ run.case = <<>> =>
             IF 1 \in Keys(fetched.collection)
             THEN DefaultResolves
             ELSE run.kind = "not_found"

\* Task A was fetched, and run a 12 has resolved to a/012.in
C10_Witness ==
    /\ fetched.result = "ok"
    /\ fetched.task = <<"A">>
    /\ run.kind = "resolved"
    /\ run.bin = <<"a">>
    /\ run.case = << <<"1", "2">> >>
    /\ run.path = Join(<<"a">>, <<"0", "1", "2">> \o ExtIn)

====
